---- MODULE Spec2Model ----
(***************************************************************************)
(* ARIES remediation control loop: Agent.monitor and the functions it      *)
(* calls (backend/core/agent.py), the fix-plan parser of                   *)
(* RAG.generate_fix_plan (backend/core/knowledge/rag.py) and the scheduler *)
(* thread that drives the monitoring tick (backend/main.py).               *)
(***************************************************************************)
EXTENDS Integers, Sequences, FiniteSets, TLC

(* ------------------------------ bounds --------------------------------- *)
\* number of monitoring ticks explored
MaxTicks == 6
\* longest completion text, counted in tokens
MaxLen == 4

(* --------------------------- configuration ----------------------------- *)
\* servers.json as loaded by Agent._load_servers: an ordered list
servers ==
  << [id |-> "web1", expected_services |-> <<"nginx">>],
     [id |-> "db1",  expected_services |-> <<>>] >>

ServerIds == {servers[i].id : i \in 1..Len(servers)}

\* agent.py:165, the escalation threshold
EscalationThreshold == 5

(* ------------------------------ state ---------------------------------- *)
VARIABLES
  failure_counters,  \* Agent.failure_counters: dict server_id -> int
  job_due,           \* the monitoring job is due in the scheduler
  pc,                \* position of the scheduler thread inside monitor()
  cur,               \* index in servers of the endpoint being handled
  healthy,           \* status["healthy"] of the initial probe of cur
  fix_plan,          \* value returned by rag.generate_fix_plan, or NoPlan
  cmd_idx,           \* index of the next command of the for loop at 304
  fixed,             \* return value of _try_fix_server
  conn_open,         \* the connector of _try_fix_server is connected
  leaked,            \* connectors left connected by a step that has returned
  executed,          \* commands passed to connector.execute in this attempt
  reprobed,          \* _try_fix_server reached its re-probe in this attempt
  kg_updates,        \* kg.update_from_experience calls of this attempt
  probed,            \* ids probed by monitor in this tick, in order
  notified,          \* _notify_user invocations per id in this tick
  tick_no,           \* finished monitor() calls
  allbad,            \* per id: every tick so far was unhealthy and not fixed
  running,           \* monitor() invocations started and not yet returned
  content,           \* the completion text given to the plan parser
  plan,              \* the plan parsed from content, or NoPlan
  conn_type,         \* per id: server["connection_type"], or "absent"
  did_connect,       \* connector.connect() was called for cur in this tick
  did_execute,       \* connector.execute() was called for cur in this tick
  llm_calls,         \* _call_llm invocations of this remediation attempt
  llm_failed,        \* the _call_llm invocation of this attempt raised
  webhook,           \* requests.post calls of _notify_user for cur, and the last answer
  gen_call,          \* arguments and environment of a generate_* call
  gen_pc,            \* "idle", "called" or "returned"
  gen_result,        \* how the generate_* call ended
  conn_kind,         \* the class of the connector object under study
  handle,            \* its client / writer / serial / connection field
  lifecycle,         \* what the calls made so far did to the connector
  last_call,         \* the last call made on the connector and its outcome
  conn_ops,          \* calls made on the connector so far
  sched_jobs,        \* the jobs registered with the schedule module
  app_state,         \* "starting", "serving" or "stopped"
  scheduler_thread,  \* "none", or where start_scheduler stands
  stop_scheduler,    \* the threading.Event of main.py:45 is set
  sched_clock,       \* seconds slept by start_scheduler, modulo the period
  period_elapsed,    \* start_scheduler has slept through a whole period
  sched_probed,      \* endpoints probed by a scheduled tick so far
  graph_nodes,       \* KnowledgeGraph.graph: node id -> attributes
  graph_edges,       \* KnowledgeGraph.graph: <<source, target>> -> weight
  db_nodes,          \* the rows of table kg_nodes
  db_edges,          \* the rows of table kg_edges
  kg_added,          \* add_node calls made on the graph so far
  kg_pair,           \* the (problem, solution) pair that outcomes are recorded for
  kg_pc,             \* "none", "load", "seed", "ready" or "failed"
  kg_stack,          \* the _load_graph calls under way: "try" or "except"
  kg_faults,         \* database calls that have raised so far
  kg_last,           \* the last call made on the graph
  kg_prev,           \* the call before it
  kg_streak,         \* the run of equal outcomes recorded on one edge
  documents,         \* VectorStore.documents: list of [id, content]
  index,             \* the vectors of VectorStore.index, in insertion order
  document_embeddings, \* the rows of VectorStore.document_embeddings
  disk_documents,    \* the list in documents.json
  disk_index,        \* the vectors in faiss_index.bin
  vs_last,           \* the last call made on the store and what it returned
  vs_ops             \* calls made on the store so far

\* the state that the monitoring tick reads and writes besides the above
tickVars == << conn_type, did_connect, did_execute, llm_calls, llm_failed,
               webhook >>

\* the state of one generate_* call
genVars == << gen_call, gen_pc, gen_result >>

\* the state of one connector object
connVars == << conn_kind, handle, lifecycle, last_call, conn_ops >>

\* the state of the application and of its scheduler thread
schedVars == << sched_jobs, app_state, scheduler_thread, stop_scheduler,
                sched_clock, period_elapsed, sched_probed >>

\* the state of the knowledge graph and of its store
kgVars == << graph_nodes, graph_edges, db_nodes, db_edges, kg_pair, kg_added,
             kg_pc, kg_stack,
             kg_faults, kg_last, kg_prev, kg_streak >>

\* the state of the retrieval store
vsVars == << documents, index, document_embeddings, disk_documents,
             disk_index, vs_last, vs_ops >>

\* the state of the components that are modelled on their own
otherVars == << genVars, connVars, schedVars, kgVars, vsVars >>

\* the state of the monitoring tick and of the plan parser
loopVars == << failure_counters, job_due, pc, cur, healthy, fix_plan, cmd_idx,
               fixed, conn_open, leaked, executed, reprobed,
               kg_updates, probed, notified, tick_no, allbad, running,
               content, plan, tickVars >>

vars == << loopVars, otherVars >>

(* --------------------------- plan parsing ------------------------------ *)
\* A completion text is a sequence of tokens:
\*   "{" and "}"  the brace characters
\*   "t"          prose that contains no brace
\*   "m"          the members "diagnosis": .., "commands": [..], "explanation": ..
\*   "n"          a JSON value that is not an object, e.g. 42
Tokens == {"{", "}", "t", "m", "n"}

Contents == UNION {[1..n -> Tokens] : n \in 0..MaxLen}

NoPlan == [type |-> "none", keys |-> {}, diagnosis |-> "", commands |-> <<>>,
           explanation |-> ""]

\* the commands carried by the members token
PlanCommands == <<"systemctl restart nginx", "systemctl is-active nginx">>

FullPlan == [type |-> "dict", keys |-> {"diagnosis", "commands", "explanation"},
             diagnosis |-> "nginx stopped", commands |-> PlanCommands,
             explanation |-> "restart the service"]

EmptyDict == [type |-> "dict", keys |-> {}, diagnosis |-> "",
              commands |-> <<>>, explanation |-> ""]

Scalar == [type |-> "number", keys |-> {}, diagnosis |-> "",
           commands |-> <<>>, explanation |-> ""]

ParseError == [type |-> "error", keys |-> {}, diagnosis |-> "",
               commands |-> <<>>, explanation |-> ""]

\* rag.py:159-163; the three texts are given in English: "cannot parse the LLM
\* response", "echo 'cannot generate a fix command'", "error while generating
\* the fix plan"
DefaultPlan == [type |-> "dict", keys |-> {"diagnosis", "commands", "explanation"},
                diagnosis |-> "cannot parse LLM response",
                commands |-> <<"echo 'cannot generate fix command'">>,
                explanation |-> "error while generating fix plan"]

\* json.loads on a token sequence: the parsed value, or ParseError when it raises
json_loads(s) ==
  IF s = <<"{", "m", "}">> THEN FullPlan
  ELSE IF s = <<"{", "}">> THEN EmptyDict
  ELSE IF s = <<"n">> THEN Scalar
  ELSE ParseError

Contains(s, tok) == \E i \in 1..Len(s) : s[i] = tok

\* str.find / str.rfind, 1-based; only used when the token occurs
find(s, tok) == CHOOSE i \in 1..Len(s) : s[i] = tok /\ \A j \in 1..(i-1) : s[j] # tok
rfind(s, tok) == CHOOSE i \in 1..Len(s) : s[i] = tok /\ \A j \in (i+1)..Len(s) : s[j] # tok

\* rag.py:148-153: the text handed to json.loads
json_str(c) ==
  IF Contains(c, "{") /\ Contains(c, "}")
  THEN SubSeq(c, find(c, "{"), rfind(c, "}"))
  ELSE c

\* the fallback of 156-163 with an empty command list
parse_fix_plan_empty(c) ==
  LET v == json_loads(json_str(c))
  IN IF v = ParseError THEN [DefaultPlan EXCEPT !.commands = <<>>] ELSE v

\* rag.py:145-163: the parsing part of generate_fix_plan
parse_fix_plan(c) ==
  LET v == json_loads(json_str(c))
  IN IF v = ParseError THEN DefaultPlan ELSE v

\* every value generate_fix_plan can return for a completion text
ParsedPlans == {parse_fix_plan(c) : c \in Contents}

\* fix_plan["commands"] at agent.py:304 evaluates without raising
HasCommands(p) == p.type = "dict" /\ "commands" \in p.keys

(* ----------------------- the generate operations ----------------------- *)
\* rag.py:109, 165, 219: generate_fix_plan, generate_shell_command and
\* generate_task_plan; each loads the template of the same name
GenerateOps == {"fix_plan", "shell_command", "task_plan"}

\* rag.py:214-217, in English
DefaultShellCommand ==
  [type |-> "dict", keys |-> {"command", "explanation"}, diagnosis |-> "",
   commands |-> <<"echo 'cannot generate command'">>,
   explanation |-> "error while generating command"]

\* rag.py:268-272, in English
DefaultTaskPlan ==
  [type |-> "dict", keys |-> {"target_servers", "commands", "explanation"},
   diagnosis |-> "",
   commands |-> <<"echo 'cannot generate task command'">>,
   explanation |-> "error while generating task plan"]

\* rag.py:199-217 and 255-272: the parsing part of the other two operations
parse_response(op, c) ==
  IF op = "fix_plan" THEN parse_fix_plan(c)
  ELSE LET v == json_loads(json_str(c))
       IN IF v # ParseError THEN v
          ELSE IF op = "shell_command" THEN DefaultShellCommand
          ELSE DefaultTaskPlan

\* a generate operation that answers a failed completion call with the
\* default result instead of letting the error out
generate_swallow(op, found, llm_ok, c) ==
  IF ~found
  THEN [raised |-> TRUE, llm_calls |-> 0, llm_failed |-> FALSE, value |-> NoPlan]
  ELSE IF ~llm_ok
  THEN [raised |-> FALSE, llm_calls |-> 1, llm_failed |-> TRUE,
        value |-> parse_response(op, <<>>)]
  ELSE [raised |-> FALSE, llm_calls |-> 1, llm_failed |-> FALSE,
        value |-> parse_response(op, c)]

\* a generate operation that goes on without a template
generate_untemplated(op, found, llm_ok, c) ==
  IF ~llm_ok
  THEN [raised |-> TRUE, llm_calls |-> 1, llm_failed |-> TRUE, value |-> NoPlan]
  ELSE [raised |-> FALSE, llm_calls |-> 1, llm_failed |-> FALSE,
        value |-> parse_response(op, c)]

\* rag.py:126-163 (and 181-217, 235-272): found says whether
\* _get_prompt_template returned a template, llm_ok whether _call_llm
\* returned, c is the completion text
generate(op, found, llm_ok, c) ==
  IF ~found
  THEN [raised |-> TRUE, llm_calls |-> 0, llm_failed |-> FALSE, value |-> NoPlan]
  ELSE IF ~llm_ok
  THEN [raised |-> TRUE, llm_calls |-> 1, llm_failed |-> TRUE, value |-> NoPlan]
  ELSE [raised |-> FALSE, llm_calls |-> 1, llm_failed |-> FALSE,
        value |-> parse_response(op, c)]

\* every way a generate_fix_plan call of the tick can end
GenOutcomes ==
  {generate("fix_plan", f, l, c) : f \in BOOLEAN, l \in BOOLEAN, c \in Contents}

(* ------------------------- connector selection ------------------------- *)
\* agent.py:110-139
KnownTypes == {"ssh", "telnet", "shell", "rj45", "cisco_serial"}

\* values of the connection_type field; "absent" stands for a record
\* without the field
ConfigTypes == KnownTypes \cup {"SSH", "snmp", "absent"}

\* str.lower on the values above
lower(t) == IF t = "SSH" THEN "ssh" ELSE t

\* agent.py:108
conn_type_of(t) == IF t = "absent" THEN "ssh" ELSE lower(t)

\* a selection whose last branch builds an SSH connector
get_connector_fallback(t) ==
  IF conn_type_of(t) \in KnownTypes THEN conn_type_of(t) ELSE "ssh"

\* agent.py:110-141: the kind of connector built, or "ValueError"
get_connector(t) ==
  IF conn_type_of(t) \in KnownTypes THEN conn_type_of(t) ELSE "ValueError"

(* ------------------------------ probing -------------------------------- *)
\* what the endpoint does during one _check_server_status call
ProbeOutcomes == [connect_ok : BOOLEAN, execute_ok : BOOLEAN,
                  metrics_ok : BOOLEAN, services_active : BOOLEAN]

\* agent.py:176-275: the verdict, whether the connector stays connected, and
\* whether connect() and execute() were called
check_server_status(server, o) ==
  LET t == conn_type[server.id]
      c == get_connector(t)
  IN IF c = "ValueError"
     THEN [ok |-> FALSE, left_open |-> FALSE, connected |-> FALSE, executed |-> FALSE]
     ELSE IF t = "cisco_serial"
     THEN [ok |-> TRUE, left_open |-> FALSE, connected |-> TRUE, executed |-> FALSE]
     ELSE IF c # "shell" /\ ~o.connect_ok
     THEN [ok |-> FALSE, left_open |-> FALSE, connected |-> TRUE, executed |-> FALSE]
     ELSE IF ~o.execute_ok
     THEN [ok |-> FALSE, left_open |-> (c # "shell"), connected |-> TRUE,
           executed |-> TRUE]
     ELSE [ok |-> IF server.expected_services # <<>>
                  THEN o.services_active
                  ELSE o.metrics_ok,
           left_open |-> FALSE, connected |-> TRUE, executed |-> TRUE]

\* self.failure_counters.get(id, 0)
Counter(id) == IF id \in DOMAIN failure_counters THEN failure_counters[id] ELSE 0

\* agent.py:157-159
IncrementCounter(id) ==
  [k \in (DOMAIN failure_counters) \cup {id} |->
     IF k = id THEN Counter(id) + 1 ELSE failure_counters[k]]

\* a healthy probe that leaves the count as it is
ResetCounterKept(id) ==
  [k \in (DOMAIN failure_counters) \cup {id} |-> Counter(k)]

\* agent.py:170
ResetCounter(id) ==
  [k \in (DOMAIN failure_counters) \cup {id} |->
     IF k = id THEN 0 ELSE failure_counters[k]]

\* the comparison written as "more than the threshold"
ShouldNotifyStrict(isFixed, count) == ~isFixed /\ count > EscalationThreshold

\* agent.py:165
ShouldNotify(isFixed, count) == ~isFixed /\ count >= EscalationThreshold

\* answers of the webhook: a 200, another status, or a transport error
WebhookResponses == {"200", "500", "exception"}

NoWebhook == [posts |-> 0, result |-> "none"]

\* a notification that posts again after an answer other than 200
notify_user_retry(url_set, resp) ==
  IF ~url_set THEN [posts |-> 0, result |-> "no_url"]
  ELSE [posts |-> IF resp = "200" THEN 1 ELSE 2, result |-> resp]

\* agent.py:326-360: the requests.post calls made and the answer logged
notify_user(url_set, resp) ==
  IF ~url_set THEN [posts |-> 0, result |-> "no_url"]
  ELSE [posts |-> 1, result |-> resp]

\* a failed remediation that ends the for loop, as an exception escaping the
\* try block of monitor would
NextIndexAbort(i) == IF ~healthy /\ ~fixed THEN Len(servers) + 1 ELSE i + 1

\* agent.py:147: the for loop goes on to the next configured server
NextIndex(i) == i + 1

\* a scheduler that starts every due job at once, in a thread of its own
StartTickThreaded == job_due

\* main.py:149-153: run_pending runs a due job in the scheduler thread itself
StartTickEnabled == pc = "idle" /\ job_due

(* ------------------------------- Init ---------------------------------- *)
NoNotifications == [id \in ServerIds |-> 0]

\* agent.py:37-62 and main.py:126: the state after Agent(settings), but for
\* the configured connection types
LoopInit ==
  /\ failure_counters = [k \in {} |-> 0]
  /\ job_due = FALSE
  /\ pc = "idle"
  /\ cur = 0
  /\ healthy = TRUE
  /\ fix_plan = NoPlan
  /\ cmd_idx = 0
  /\ fixed = FALSE
  /\ conn_open = FALSE
  /\ leaked = 0
  /\ executed = <<>>
  /\ reprobed = FALSE
  /\ kg_updates = 0
  /\ probed = <<>>
  /\ notified = NoNotifications
  /\ tick_no = 0
  /\ allbad = [id \in ServerIds |-> TRUE]
  /\ running = 0
  /\ did_connect = FALSE
  /\ did_execute = FALSE
  /\ llm_calls = 0
  /\ llm_failed = FALSE
  /\ webhook = NoWebhook

\* every endpoint of servers.json is reached over SSH
SshEverywhere == [id \in ServerIds |-> "ssh"]

\* no generate_* call is under way
GenIdle ==
  /\ gen_call = [op |-> "none", found |-> FALSE, llm_ok |-> FALSE, content |-> <<>>]
  /\ gen_pc = "idle"
  /\ gen_result = [raised |-> FALSE, llm_calls |-> 0, llm_failed |-> FALSE,
                   value |-> NoPlan]

\* no call was made on the connector yet
NoCall == [op |-> "none", result |-> "ok", io |-> FALSE, before |-> "fresh",
           handle_before |-> "none"]

\* ssh.py:33, telnet.py:30-31, rj45.py:28, cisco_connector.py:19: a new
\* connector holds no session object
ConnFresh ==
  /\ handle = "none"
  /\ lifecycle = "fresh"
  /\ last_call = NoCall
  /\ conn_ops = 0

\* no connector object is under study
ConnIdle ==
  /\ conn_kind = "ssh"
  /\ ConnFresh

\* main.py:44-45 and 126: the module is imported; no statement of the
\* program registers a job with the schedule module
SchedIdle ==
  /\ sched_jobs = {}
  /\ app_state = "starting"
  /\ scheduler_thread = "none"
  /\ stop_scheduler = FALSE
  /\ sched_clock = 0
  /\ period_elapsed = FALSE
  /\ sched_probed = {}

\* no call was made on the graph yet
NoKgCall == [op |-> "none", edge |-> <<"", "">>, success |-> FALSE,
             before |-> 0, clamped |-> FALSE, problem |-> "",
             results |-> << >>]

NoStreak == [edge |-> <<"", "">>, success |-> FALSE, n |-> 0]

\* a table without rows, a graph without nodes
EmptyTable == [k \in {} |-> 0]

\* an empty store and no KnowledgeGraph object
KGIdle ==
  /\ graph_nodes = EmptyTable
  /\ graph_edges = EmptyTable
  /\ db_nodes = EmptyTable
  /\ db_edges = EmptyTable
  /\ kg_added = 0
  /\ kg_pair = <<"service_down", "restart_service">>
  /\ kg_pc = "none"
  /\ kg_stack = << >>
  /\ kg_faults = 0
  /\ kg_last = NoKgCall
  /\ kg_prev = NoKgCall
  /\ kg_streak = NoStreak

\* no call was made on the store yet
NoVsCall == [op |-> "none", id |-> "", content |-> "", limit |-> 0,
             n |-> 0, returned |-> FALSE, results |-> << >>,
             added |-> FALSE, before |-> << >>, loaded |-> FALSE]

\* vectorstore.py:20-46 with 73-86 and 136: VectorStore(path) on a new path
\* builds an empty index; the base documents are not added, because
\* self.model is assigned only after _load_or_create_index has returned and
\* add_document answers the AttributeError with False; the empty store is saved
VSIdle ==
  /\ documents = << >>
  /\ index = << >>
  /\ document_embeddings = << >>
  /\ disk_documents = << >>
  /\ disk_index = << >>
  /\ vs_last = NoVsCall
  /\ vs_ops = 0

\* the components modelled on their own are idle, but for component c
IdleUnless(c) ==
  /\ IF c = "gen" THEN TRUE ELSE GenIdle
  /\ IF c = "conn" THEN TRUE ELSE ConnIdle
  /\ IF c = "sched" THEN TRUE ELSE SchedIdle
  /\ IF c = "kg" THEN TRUE ELSE KGIdle
  /\ IF c = "vs" THEN TRUE ELSE VSIdle

OtherInit == IdleUnless("none")

\* the monitoring tick has not started and no completion text is at hand
LoopIdle ==
  /\ LoopInit
  /\ conn_type = SshEverywhere
  /\ content = <<>>
  /\ plan = NoPlan

Init ==
  /\ LoopIdle
  /\ OtherInit

(* --------------------------- the monitoring tick ----------------------- *)
CurId == servers[cur].id

\* the connector kind of the endpoint being handled
CurConnector == get_connector(conn_type[CurId])

\* the period of the monitoring job has elapsed
TimerFires ==
  /\ ~job_due
  /\ job_due' = TRUE
  /\ UNCHANGED << failure_counters, pc, cur, healthy, fix_plan, cmd_idx, fixed,
                  conn_open, leaked, executed, reprobed, kg_updates, probed,
                  notified, tick_no, allbad, running, content, plan,
                  tickVars, otherVars >>

\* main.py:129-133 and agent.py:143-147: monitoring_task calls agent.monitor()
StartTick ==
  /\ StartTickEnabled
  /\ tick_no < MaxTicks
  /\ job_due' = FALSE
  /\ running' = running + 1
  /\ probed' = <<>>
  /\ notified' = NoNotifications
  /\ cur' = 1
  /\ pc' = "check"
  /\ healthy' = TRUE
  /\ fix_plan' = NoPlan
  /\ cmd_idx' = 0
  /\ fixed' = FALSE
  /\ conn_open' = FALSE
  /\ executed' = <<>>
  /\ reprobed' = FALSE
  /\ kg_updates' = 0
  /\ did_connect' = FALSE
  /\ did_execute' = FALSE
  /\ llm_calls' = 0
  /\ llm_failed' = FALSE
  /\ webhook' = NoWebhook
  /\ UNCHANGED << failure_counters, leaked, tick_no, allbad, content, plan,
                  conn_type, otherVars >>

\* agent.py:151-159 and 168-171: the initial probe and the counter update
CheckStatus ==
  /\ pc = "check"
  /\ \E o \in ProbeOutcomes :
       LET r == check_server_status(servers[cur], o)
       IN /\ healthy' = r.ok
          /\ leaked' = IF r.left_open THEN leaked + 1 ELSE leaked
          /\ did_connect' = r.connected
          /\ did_execute' = r.executed
          /\ probed' = Append(probed, CurId)
          /\ IF r.ok
             THEN /\ failure_counters' = ResetCounter(CurId)
                  /\ pc' = "next"
             ELSE /\ failure_counters' = IncrementCounter(CurId)
                  /\ pc' = "plan"
  /\ UNCHANGED << job_due, cur, fix_plan, cmd_idx, fixed, conn_open, executed,
                  reprobed, kg_updates, notified, tick_no, allbad, running,
                  content, plan, conn_type, llm_calls, llm_failed, webhook,
                  otherVars >>

\* agent.py:297 with rag.py:127-129 and 142: the template is absent or the
\* completion call raises; _try_fix_server returns False at 322-324
GenerateFixPlanRaises ==
  /\ pc = "plan"
  /\ \E g \in GenOutcomes :
       /\ g.raised
       /\ llm_calls' = llm_calls + g.llm_calls
       /\ llm_failed' = g.llm_failed
  /\ fixed' = FALSE
  /\ pc' = "notify"
  /\ UNCHANGED << failure_counters, job_due, cur, healthy, fix_plan, cmd_idx,
                  conn_open, leaked, executed, reprobed, kg_updates, probed,
                  notified, tick_no, allbad, running, content, plan,
                  conn_type, did_connect, did_execute, webhook, otherVars >>

\* agent.py:297 with rag.py:142-163: a completion text arrives and is parsed
GenerateFixPlan ==
  /\ pc = "plan"
  /\ \E g \in GenOutcomes :
       /\ ~g.raised
       /\ fix_plan' = g.value
       /\ llm_calls' = llm_calls + g.llm_calls
       /\ llm_failed' = g.llm_failed
  /\ pc' = "connect"
  /\ UNCHANGED << failure_counters, job_due, cur, healthy, cmd_idx, fixed,
                  conn_open, leaked, executed, reprobed, kg_updates, probed,
                  notified, tick_no, allbad, running, content, plan,
                  conn_type, did_connect, did_execute, webhook, otherVars >>

\* agent.py:301-302: _get_connector and connect; the local shell connector
\* and the simulated Cisco connector always connect
FixConnect ==
  /\ pc = "connect"
  /\ \E answer \in BOOLEAN :
       LET ok == /\ CurConnector # "ValueError"
                 /\ (answer \/ CurConnector \in {"shell", "cisco_serial"})
       IN IF ok
          THEN /\ conn_open' = (CurConnector # "shell")
               /\ cmd_idx' = 1
               /\ pc' = "execute"
               /\ UNCHANGED fixed
          ELSE /\ fixed' = FALSE
               /\ pc' = "notify"
               /\ UNCHANGED << conn_open, cmd_idx >>
  /\ did_connect' = (did_connect \/ CurConnector # "ValueError")
  /\ UNCHANGED << failure_counters, job_due, cur, healthy, fix_plan, leaked,
                  executed, reprobed, kg_updates, probed, notified, tick_no,
                  allbad, running, content, plan, conn_type, did_execute,
                  llm_calls, llm_failed, webhook, otherVars >>

\* agent.py:304: fix_plan["commands"] raises KeyError or TypeError, which
\* 322-324 turn into a False result; the connector is not disconnected
PlanWithoutCommands ==
  /\ pc = "execute"
  /\ ~HasCommands(fix_plan)
  /\ fixed' = FALSE
  /\ conn_open' = FALSE
  /\ leaked' = IF conn_open THEN leaked + 1 ELSE leaked
  /\ pc' = "notify"
  /\ UNCHANGED << failure_counters, job_due, cur, healthy, fix_plan, cmd_idx,
                  executed, reprobed, kg_updates, probed, notified, tick_no,
                  allbad, running, content, plan, tickVars, otherVars >>

\* what connector.execute does with a command: the Cisco connector has no
\* execute method (cisco_connector.py:74), the others return output or error
\* text, or raise (ssh.py:102-104)
ExecOutcomes(c) ==
  IF c = "cisco_serial" THEN {"no_method"} ELSE {"output", "error_text", "raise"}

\* agent.py:304-307: one round of the for loop
ExecCommand ==
  /\ pc = "execute"
  /\ HasCommands(fix_plan)
  /\ cmd_idx <= Len(fix_plan.commands)
  /\ \E r \in ExecOutcomes(CurConnector) :
       /\ executed' = IF r = "no_method" THEN executed
                      ELSE Append(executed, fix_plan.commands[cmd_idx])
       /\ did_execute' = (did_execute \/ r # "no_method")
       /\ IF r \in {"raise", "no_method"}
          THEN /\ fixed' = FALSE
               /\ conn_open' = FALSE
               /\ leaked' = IF conn_open THEN leaked + 1 ELSE leaked
               /\ pc' = "notify"
               /\ UNCHANGED cmd_idx
          ELSE /\ cmd_idx' = cmd_idx + 1
               /\ UNCHANGED << fixed, conn_open, leaked, pc >>
  /\ UNCHANGED << failure_counters, job_due, cur, healthy, fix_plan, reprobed,
                  kg_updates, probed, notified, tick_no, allbad, running,
                  content, plan, conn_type, did_connect, llm_calls,
                  llm_failed, webhook, otherVars >>

\* agent.py:309: the loop is over, connector.disconnect()
FixDisconnect ==
  /\ pc = "execute"
  /\ HasCommands(fix_plan)
  /\ cmd_idx > Len(fix_plan.commands)
  /\ conn_open' = FALSE
  /\ pc' = "reprobe"
  /\ UNCHANGED << failure_counters, job_due, cur, healthy, fix_plan, cmd_idx,
                  fixed, leaked, executed, reprobed, kg_updates, probed,
                  notified, tick_no, allbad, running, content, plan,
                  tickVars, otherVars >>

\* agent.py:311-320: the re-probe decides the result of _try_fix_server
Reprobe ==
  /\ pc = "reprobe"
  /\ \E o \in ProbeOutcomes :
       LET r == check_server_status(servers[cur], o)
       IN /\ fixed' = r.ok
          /\ leaked' = IF r.left_open THEN leaked + 1 ELSE leaked
          /\ did_connect' = (did_connect \/ r.connected)
          /\ did_execute' = (did_execute \/ r.executed)
  /\ reprobed' = TRUE
  /\ pc' = "notify"
  /\ UNCHANGED << failure_counters, job_due, cur, healthy, fix_plan, cmd_idx,
                  conn_open, executed, kg_updates, probed, notified, tick_no,
                  allbad, running, content, plan, conn_type, llm_calls,
                  llm_failed, webhook, otherVars >>

\* agent.py:164-167: escalate when the fix failed and the threshold is reached
Notify ==
  /\ pc = "notify"
  /\ IF ShouldNotify(fixed, Counter(CurId))
     THEN /\ notified' = [notified EXCEPT ![CurId] = @ + 1]
          /\ \E url_set \in BOOLEAN, resp \in WebhookResponses :
               webhook' = [posts |-> webhook.posts + notify_user(url_set, resp).posts,
                           result |-> notify_user(url_set, resp).result]
     ELSE UNCHANGED << notified, webhook >>
  /\ pc' = "next"
  /\ UNCHANGED << failure_counters, job_due, cur, healthy, fix_plan, cmd_idx,
                  fixed, conn_open, leaked, executed, reprobed, kg_updates,
                  probed, tick_no, allbad, running, content, plan, conn_type,
                  did_connect, did_execute, llm_calls, llm_failed, otherVars >>

\* agent.py:147: the next round of the for loop, or the return of monitor()
NextServer ==
  /\ pc = "next"
  /\ allbad' = [allbad EXCEPT ![CurId] = @ /\ ~healthy /\ ~fixed]
  /\ healthy' = TRUE
  /\ fix_plan' = NoPlan
  /\ cmd_idx' = 0
  /\ fixed' = FALSE
  /\ executed' = <<>>
  /\ reprobed' = FALSE
  /\ kg_updates' = 0
  /\ did_connect' = FALSE
  /\ did_execute' = FALSE
  /\ llm_calls' = 0
  /\ llm_failed' = FALSE
  /\ webhook' = NoWebhook
  /\ IF NextIndex(cur) <= Len(servers)
     THEN /\ cur' = NextIndex(cur)
          /\ pc' = "check"
          /\ UNCHANGED << tick_no, running >>
     ELSE /\ cur' = 0
          /\ pc' = "idle"
          /\ tick_no' = tick_no + 1
          /\ running' = running - 1
  /\ UNCHANGED << failure_counters, job_due, conn_open, leaked, probed,
                  notified, content, plan, conn_type, otherVars >>

Next ==
  \/ TimerFires
  \/ StartTick
  \/ CheckStatus
  \/ GenerateFixPlanRaises
  \/ GenerateFixPlan
  \/ FixConnect
  \/ PlanWithoutCommands
  \/ ExecCommand
  \/ FixDisconnect
  \/ Reprobe
  \/ Notify
  \/ NextServer

Spec == Init /\ [][Next]_vars

(* ------------- the tick over every kind of connection_type ------------- *)
\* ticks explored per configuration
MaxSelectTicks == 1

\* servers.json may give each endpoint any connection_type
SelectInit ==
  /\ LoopInit
  /\ conn_type \in [ServerIds -> ConfigTypes]
  /\ content = <<>>
  /\ plan = NoPlan
  /\ OtherInit

\* monitoring_task, for the first ticks only
StartSelectTick == StartTick /\ tick_no < MaxSelectTicks

SelectNext ==
  \/ TimerFires
  \/ StartSelectTick
  \/ CheckStatus
  \/ GenerateFixPlanRaises
  \/ GenerateFixPlan
  \/ FixConnect
  \/ PlanWithoutCommands
  \/ ExecCommand
  \/ FixDisconnect
  \/ Reprobe
  \/ Notify
  \/ NextServer

SelectSpec == SelectInit /\ [][SelectNext]_vars

(* ---------------------- one generate_* call alone ---------------------- *)
\* a call of one of the three operations, with or without its template in
\* the prompt store, with a completion service that answers or fails
GenCalls == [op : GenerateOps, found : BOOLEAN, llm_ok : BOOLEAN,
             content : Contents]

GenInit ==
  /\ LoopIdle
  /\ IdleUnless("gen")
  /\ gen_call \in GenCalls
  /\ gen_pc = "called"
  /\ gen_result = [raised |-> FALSE, llm_calls |-> 0, llm_failed |-> FALSE,
                   value |-> NoPlan]

\* rag.py:109-163, 165-217, 219-272: the call runs to its end
GenerateReturns ==
  /\ gen_pc = "called"
  /\ gen_result' = generate(gen_call.op, gen_call.found, gen_call.llm_ok,
                            gen_call.content)
  /\ gen_pc' = "returned"
  /\ UNCHANGED << gen_call, loopVars, connVars, schedVars, kgVars, vsVars >>

GenNext == GenerateReturns

GenSpec == GenInit /\ [][GenNext]_vars

(* ------------------------ one connector alone -------------------------- *)
\* calls made on one connector object
MaxOps == 4

\* what the far end does when connect() is called: it accepts, it cannot be
\* reached or rejects the key or password while the session is set up, or
\* (telnet) it answers the login with "failed" or "incorrect"
ConnectAnswers == {"accept", "refuse", "login_rejected"}

\* ssh.py:36-68, telnet.py:34-73, rj45.py:31-45, shell.py:20-22,
\* cisco_connector.py:22-42: the session field after connect() and whether
\* connect() returned True or raised. "stale" is a session object assigned
\* by a connect() that raised afterwards.
connect(kind, h, answer) ==
  IF kind = "shell" THEN [handle |-> h, result |-> "ok", io |-> FALSE]
  ELSE IF kind = "cisco_serial" THEN [handle |-> "live", result |-> "ok", io |-> FALSE]
  ELSE IF answer = "accept" THEN [handle |-> "live", result |-> "ok", io |-> TRUE]
  ELSE IF kind = "ssh" THEN [handle |-> "stale", result |-> "raised", io |-> TRUE]
  ELSE IF kind = "telnet" /\ answer = "login_rejected"
  THEN [handle |-> "stale", result |-> "raised", io |-> TRUE]
  ELSE [handle |-> h, result |-> "raised", io |-> TRUE]

\* ssh.py:70-75, telnet.py:75-91, rj45.py:47-52, shell.py:24-26,
\* cisco_connector.py:64-72: close_ok says whether closing the telnet writer
\* returns
disconnect(kind, h, close_ok) ==
  IF kind = "shell" \/ h = "none"
  THEN [handle |-> h, result |-> "ok", io |-> FALSE]
  ELSE IF kind = "telnet" /\ ~close_ok
  THEN [handle |-> h, result |-> "raised", io |-> TRUE]
  ELSE [handle |-> "none", result |-> "ok", io |-> (kind # "cisco_serial")]

\* an execute() that goes to the transport without looking at the session
execute_unguarded(kind, h, cmd_ok, touched) ==
  IF kind = "cisco_serial"
  THEN [result |-> "AttributeError", io |-> FALSE]
  ELSE [result |-> IF cmd_ok THEN "output" ELSE "raised", io |-> TRUE]

\* ssh.py:77-104, telnet.py:93-118, rj45.py:54-90, shell.py:28-60; the Cisco
\* connector has no execute method. cmd_ok says whether the transport
\* returns text; touched says whether an SSH client whose connect() failed
\* reaches the network before it raises.
execute(kind, h, cmd_ok, touched) ==
  IF kind = "cisco_serial"
  THEN [result |-> "AttributeError", io |-> FALSE]
  ELSE IF kind = "shell"
  THEN [result |-> IF cmd_ok THEN "output" ELSE "raised", io |-> TRUE]
  ELSE IF h = "none"
  THEN [result |-> "NotConnected", io |-> FALSE]
  ELSE IF kind = "ssh" /\ h = "stale"
  THEN [result |-> "raised", io |-> touched]
  ELSE [result |-> IF cmd_ok THEN "output" ELSE "raised", io |-> TRUE]

ConnInit ==
  /\ LoopIdle
  /\ IdleUnless("conn")
  /\ conn_kind \in KnownTypes
  /\ ConnFresh

Connect ==
  /\ conn_ops < MaxOps
  /\ \E answer \in ConnectAnswers :
       LET r == connect(conn_kind, handle, answer)
       IN /\ handle' = r.handle
          /\ lifecycle' = IF r.result = "ok" THEN "connected" ELSE "connect_failed"
          /\ last_call' = [op |-> "connect", result |-> r.result, io |-> r.io,
                           before |-> lifecycle, handle_before |-> handle]
  /\ conn_ops' = conn_ops + 1
  /\ UNCHANGED << conn_kind, loopVars, genVars, schedVars, kgVars, vsVars >>

Execute ==
  /\ conn_ops < MaxOps
  /\ \E cmd_ok \in BOOLEAN, touched \in BOOLEAN :
       LET r == execute(conn_kind, handle, cmd_ok, touched)
       IN last_call' = [op |-> "execute", result |-> r.result, io |-> r.io,
                        before |-> lifecycle, handle_before |-> handle]
  /\ conn_ops' = conn_ops + 1
  /\ UNCHANGED << conn_kind, handle, lifecycle, loopVars, genVars, schedVars, kgVars, vsVars >>

Disconnect ==
  /\ conn_ops < MaxOps
  /\ \E close_ok \in BOOLEAN :
       LET r == disconnect(conn_kind, handle, close_ok)
       IN /\ handle' = r.handle
          /\ lifecycle' = IF r.result = "ok" THEN "disconnected" ELSE lifecycle
          /\ last_call' = [op |-> "disconnect", result |-> r.result, io |-> r.io,
                           before |-> lifecycle, handle_before |-> handle]
  /\ conn_ops' = conn_ops + 1
  /\ UNCHANGED << conn_kind, loopVars, genVars, schedVars, kgVars, vsVars >>

ConnNext ==
  \/ Connect
  \/ Execute
  \/ Disconnect

ConnSpec == ConnInit /\ [][ConnNext]_vars

(* ------------------- the application and its scheduler ----------------- *)
\* main.py:130: "once per minute", in rounds of the one-second sleep at 152
MonitorPeriod == 60

SchedInit ==
  /\ LoopIdle
  /\ IdleUnless("sched")
  /\ SchedIdle

\* main.py:157-175: the startup handler starts the scheduler thread
StartupEvent ==
  /\ app_state = "starting"
  /\ app_state' = "serving"
  /\ scheduler_thread' = "run_pending"
  /\ UNCHANGED << sched_jobs, stop_scheduler, sched_clock, period_elapsed,
                  sched_probed, loopVars, genVars, connVars, kgVars, vsVars >>

\* main.py:104-109: the application is built with a lifespan function, under
\* which the framework does not call the startup handlers
StartupLifespanOnly ==
  /\ app_state = "starting"
  /\ app_state' = "serving"
  /\ UNCHANGED << sched_jobs, scheduler_thread, stop_scheduler, sched_clock,
                  period_elapsed, sched_probed, loopVars, genVars, connVars, kgVars, vsVars >>

\* the registered jobs whose period has run out
DueJobs == IF period_elapsed /\ sched_clock = 0 THEN sched_jobs ELSE {}

\* main.py:149-151: schedule.run_pending() runs each due job in this thread;
\* monitoring_task calls agent.monitor(), which probes every endpoint
RunPending ==
  /\ scheduler_thread = "run_pending"
  /\ ~stop_scheduler
  /\ sched_probed' = IF "monitoring_task" \in DueJobs
                     THEN sched_probed \cup ServerIds
                     ELSE sched_probed
  /\ scheduler_thread' = "sleep"
  /\ UNCHANGED << sched_jobs, app_state, stop_scheduler, sched_clock,
                  period_elapsed, loopVars, genVars, connVars, kgVars, vsVars >>

\* main.py:152: time.sleep(1)
Sleep ==
  /\ scheduler_thread = "sleep"
  /\ sched_clock' = (sched_clock + 1) % MonitorPeriod
  /\ period_elapsed' = (period_elapsed \/ sched_clock + 1 = MonitorPeriod)
  /\ scheduler_thread' = "run_pending"
  /\ UNCHANGED << sched_jobs, app_state, stop_scheduler, sched_probed,
                  loopVars, genVars, connVars, kgVars, vsVars >>

\* main.py:92-99: the lifespan function is left
Shutdown ==
  /\ app_state = "serving"
  /\ app_state' = "stopped"
  /\ stop_scheduler' = (stop_scheduler \/ scheduler_thread # "none")
  /\ UNCHANGED << sched_jobs, scheduler_thread, sched_clock, period_elapsed,
                  sched_probed, loopVars, genVars, connVars, kgVars, vsVars >>

\* main.py:149: the while condition is false
SchedulerExits ==
  /\ scheduler_thread = "run_pending"
  /\ stop_scheduler
  /\ scheduler_thread' = "exited"
  /\ UNCHANGED << sched_jobs, app_state, stop_scheduler, sched_clock,
                  period_elapsed, sched_probed, loopVars, genVars, connVars, kgVars, vsVars >>

SchedNext ==
  \/ StartupEvent
  \/ StartupLifespanOnly
  \/ RunPending
  \/ Sleep
  \/ Shutdown
  \/ SchedulerExits

\* the scheduler thread, once started, keeps taking its steps
SchedSpec ==
  /\ SchedInit
  /\ [][SchedNext]_vars
  /\ WF_vars(RunPending)
  /\ WF_vars(Sleep)
  /\ WF_vars(SchedulerExits)

(* --------------------------- the knowledge graph ----------------------- *)
\* the doubles that the weights of the model take, in ascending order: the
\* closure of 0.1, 0.2, .. 1.0 under the update rule, and the sums and
\* differences the rule computes before it clamps. A weight is the position
\* of its double in this list, so that <= on positions is <= on doubles.

FloatRepr ==
  << "0.0", "2.7755575615628914e-17", "1.3877787807814457e-16",
     "0.09999999999999998", "0.1", "0.10000000000000003",
     "0.10000000000000014", "0.19999999999999998", "0.2",
     "0.20000000000000004", "0.20000000000000015", "0.3",
     "0.30000000000000004", "0.30000000000000016", "0.4",
     "0.40000000000000013", "0.5", "0.5000000000000001",
     "0.6", "0.6000000000000001", "0.7",
     "0.7000000000000001", "0.7999999999999999", "0.8",
     "0.8999999999999999", "0.9", "0.9999999999999999",
     "1.0", "1.0999999999999999", "1.1" >>

\* w + 0.1 in IEEE 754 double arithmetic, for each weight the rule can meet
FloatPlusTenth ==
  (5 :> 9) @@ (6 :> 10) @@ (7 :> 11) @@ (8 :> 12) @@ (9 :> 13)
  @@ (10 :> 13) @@ (11 :> 14) @@ (12 :> 15) @@ (13 :> 15) @@ (14 :> 16)
  @@ (15 :> 17) @@ (16 :> 18) @@ (17 :> 19) @@ (18 :> 20) @@ (19 :> 21)
  @@ (20 :> 22) @@ (21 :> 23) @@ (22 :> 24) @@ (23 :> 25) @@ (24 :> 26)
  @@ (25 :> 27) @@ (26 :> 28) @@ (27 :> 29) @@ (28 :> 30)

\* w - 0.1 in IEEE 754 double arithmetic
FloatMinusTenth ==
  (5 :> 1) @@ (6 :> 2) @@ (7 :> 3) @@ (8 :> 4) @@ (9 :> 5)
  @@ (10 :> 6) @@ (11 :> 7) @@ (12 :> 8) @@ (13 :> 10) @@ (14 :> 11)
  @@ (15 :> 13) @@ (16 :> 14) @@ (17 :> 15) @@ (18 :> 16) @@ (19 :> 17)
  @@ (20 :> 18) @@ (21 :> 19) @@ (22 :> 20) @@ (23 :> 21) @@ (24 :> 22)
  @@ (25 :> 23) @@ (26 :> 24) @@ (27 :> 25) @@ (28 :> 26)

W_0_1 == 5

W_0_3 == 12

W_0_6 == 19

W_0_7 == 21

W_0_8 == 24

W_0_9 == 26

W_1_0 == 28

\* the doubles 0.1, 0.2, .. 1.0
Tenths == {5, 9, 12, 15, 17, 19, 21, 24, 26, 28}

\* the weights the update rule can meet
RuleWeights == DOMAIN FloatPlusTenth

Min(a, b) == IF a <= b THEN a ELSE b

Max(a, b) == IF a >= b THEN a ELSE b

\* an update rule that adds and subtracts without clamping
new_weight_unclamped(w, success) ==
  IF success THEN FloatPlusTenth[w] ELSE FloatMinusTenth[w]

\* kg.py:343-348
new_weight(w, success) ==
  IF success
  THEN Min(W_1_0, FloatPlusTenth[w])
  ELSE Max(W_0_1, FloatMinusTenth[w])

\* kg.py:364
initial_weight(success) == IF success THEN W_0_6 ELSE W_0_3

\* kg.py:75-84, id -> category
SeedServices ==
  [nginx |-> "web_server", apache |-> "web_server", mysql |-> "database",
   postgresql |-> "database", redis |-> "cache", mongodb |-> "database",
   kubernetes |-> "container_orchestration", docker |-> "container"]

\* kg.py:87-94, id -> category
SeedProblems ==
  [high_cpu |-> "performance", high_memory |-> "performance",
   disk_full |-> "storage", service_down |-> "availability",
   network_latency |-> "network", connection_refused |-> "network"]

\* kg.py:97-122, id -> description, in English
SeedSolutions ==
  [restart_service |-> "restart the service", clear_cache |-> "clear the cache",
   clean_logs |-> "clean the log files", check_process |-> "check the process"]

\* kg.py:125-158: the rows written to kg_nodes
SeedNodes ==
  [id \in DOMAIN SeedServices \cup DOMAIN SeedProblems \cup DOMAIN SeedSolutions |->
     IF id \in DOMAIN SeedServices
     THEN [type |-> "service", category |-> SeedServices[id], description |-> "None"]
     ELSE IF id \in DOMAIN SeedProblems
     THEN [type |-> "problem", category |-> SeedProblems[id], description |-> "None"]
     ELSE [type |-> "solution", category |-> "None", description |-> SeedSolutions[id]]]

\* kg.py:162-187: the rows written to kg_edges
SeedEdges ==
  (<<"nginx", "high_cpu">> :> W_0_7) @@ (<<"nginx", "service_down">> :> W_0_9)
  @@ (<<"mysql", "high_memory">> :> W_0_8) @@ (<<"mysql", "disk_full">> :> W_0_6)
  @@ (<<"redis", "high_memory">> :> W_0_7)
  @@ (<<"kubernetes", "service_down">> :> W_0_8)
  @@ (<<"docker", "high_cpu">> :> W_0_6)
  @@ (<<"high_cpu", "restart_service">> :> W_0_6)
  @@ (<<"high_cpu", "check_process">> :> W_0_8)
  @@ (<<"high_memory", "clear_cache">> :> W_0_9)
  @@ (<<"disk_full", "clean_logs">> :> W_0_8)
  @@ (<<"service_down", "restart_service">> :> W_0_9)
  @@ (<<"service_down", "check_process">> :> W_0_7)

\* INSERT OR REPLACE of rows into a table
Upsert(table, rows) ==
  [k \in DOMAIN table \cup DOMAIN rows |->
     IF k \in DOMAIN rows THEN rows[k] ELSE table[k]]

\* a node that networkx makes for the end of an edge
BareNode == [type |-> "None", category |-> "None", description |-> "None"]

\* nx.DiGraph.add_edge: both ends become nodes of the graph
WithEnds(nodes, e) ==
  [k \in DOMAIN nodes \cup {e[1], e[2]} |->
     IF k \in DOMAIN nodes THEN nodes[k] ELSE BareNode]

\* kg.py:35-58: the graph built from the rows of the store
LoadedNodes ==
  [k \in DOMAIN db_nodes \cup {e[1] : e \in DOMAIN db_edges}
                         \cup {e[2] : e \in DOMAIN db_edges} |->
     IF k \in DOMAIN db_nodes THEN db_nodes[k] ELSE BareNode]

\* the (problem, solution) pairs that outcomes may be recorded for: one of
\* the seeded catalogue, one that the catalogue does not know
UpdatePairs == {<<"service_down", "restart_service">>, <<"net_flap", "reboot">>}

\* the context argument: without and with the keys that add_node reads
Contexts == {[category |-> "absent", description |-> "absent"],
             [category |-> "network", description |-> "reboot the host"]}

\* kg.py:334: add_node(problem, type="problem", category=context.get(..))
ProblemNode(ctx) ==
  [type |-> "problem",
   category |-> IF ctx.category = "absent" THEN "unknown" ELSE ctx.category,
   description |-> "None"]

\* kg.py:337: add_node(solution, type="solution", description=context.get(..))
SolutionNode(ctx) ==
  [type |-> "solution", category |-> "None",
   description |-> IF ctx.description = "absent" THEN "" ELSE ctx.description]

\* kg.py:333-337: the nodes after both membership tests
EnsuredNodes(nodes, e, ctx) ==
  [k \in DOMAIN nodes \cup {e[1], e[2]} |->
     IF k \in DOMAIN nodes THEN nodes[k]
     ELSE IF k = e[1] THEN ProblemNode(ctx) ELSE SolutionNode(ctx)]

\* kg.py:333-337: the rows add_node writes for the nodes missing in the graph
EnsuredRows(e, ctx) ==
  [k \in {e[1], e[2]} \ DOMAIN graph_nodes |->
     IF k = e[1] THEN ProblemNode(ctx) ELSE SolutionNode(ctx)]

\* database calls that raise, over a whole run
MaxFaults == 2

\* an empty store, no KnowledgeGraph object, and a pair to record outcomes for
KGInit ==
  /\ LoopIdle
  /\ IdleUnless("kg")
  /\ graph_nodes = EmptyTable
  /\ graph_edges = EmptyTable
  /\ db_nodes = EmptyTable
  /\ db_edges = EmptyTable
  /\ kg_added = 0
  /\ kg_pair \in UpdatePairs
  /\ kg_pc = "none"
  /\ kg_stack = << >>
  /\ kg_faults = 0
  /\ kg_last = NoKgCall
  /\ kg_prev = NoKgCall
  /\ kg_streak = NoStreak

\* kg.py:19-29: KnowledgeGraph(db) enters _load_graph
KGConstruct ==
  /\ kg_pc \in {"none", "ready", "failed"}
  /\ kg_pc' = "load"
  /\ kg_stack' = <<"try">>
  /\ graph_nodes' = EmptyTable
  /\ graph_edges' = EmptyTable
  /\ kg_last' = NoKgCall
  /\ kg_prev' = NoKgCall
  /\ kg_streak' = NoStreak
  /\ UNCHANGED << db_nodes, db_edges, kg_pair, kg_added, kg_faults, loopVars, genVars,
                  connVars, schedVars, vsVars >>

\* the frames left when an exception leaves the topmost _load_graph call:
\* a call that is in its except part lets it through to its caller
Unwound(stack) ==
  LET live == {i \in 1..Len(stack) :
                 \A j \in i..Len(stack) : stack[j] = "except"}
      keep == IF live = {} THEN Len(stack)
              ELSE (CHOOSE i \in live : \A j \in live : i <= j) - 1
  IN SubSeq(stack, 1, keep)

\* kg.py:66-69: the innermost call that is still in its try part catches the
\* exception and goes to its except part
Caught(stack) ==
  LET u == Unwound(stack)
  IN IF u = << >> THEN u ELSE [u EXCEPT ![Len(u)] = "except"]

\* kg.py:33-61: the try part of _load_graph reads both tables
KGLoad ==
  /\ kg_pc = "load"
  /\ \/ /\ graph_nodes' = LoadedNodes
        /\ graph_edges' = db_edges
        /\ IF DOMAIN db_nodes = {}
           THEN kg_pc' = "seed" /\ UNCHANGED kg_stack
           ELSE kg_pc' = "ready" /\ kg_stack' = << >>
        /\ UNCHANGED kg_faults
     \/ /\ kg_faults < MaxFaults
        /\ kg_faults' = kg_faults + 1
        /\ graph_nodes' = EmptyTable
        /\ graph_edges' = EmptyTable
        /\ kg_stack' = Caught(kg_stack)
        /\ kg_pc' = "seed"
  /\ UNCHANGED << db_nodes, db_edges, kg_pair, kg_added, kg_last, kg_prev, kg_streak,
                  loopVars, genVars, connVars, schedVars, vsVars >>

\* kg.py:71-190: _create_base_knowledge writes the catalogue and calls
\* _load_graph again; at "nodes" the first execute_many raises, at "edges"
\* the second
KGSeed ==
  /\ kg_pc = "seed"
  /\ \/ /\ db_nodes' = Upsert(db_nodes, SeedNodes)
        /\ db_edges' = Upsert(db_edges, SeedEdges)
        /\ kg_stack' = Append(kg_stack, "try")
        /\ kg_pc' = "load"
        /\ UNCHANGED << kg_faults, graph_nodes, graph_edges >>
     \/ /\ kg_faults < MaxFaults
        /\ kg_faults' = kg_faults + 1
        /\ \E at \in {"nodes", "edges"} :
             db_nodes' = IF at = "edges" THEN Upsert(db_nodes, SeedNodes)
                         ELSE db_nodes
        /\ UNCHANGED db_edges
        /\ kg_stack' = Caught(kg_stack)
        /\ IF Caught(kg_stack) = << >>
           THEN kg_pc' = "failed" /\ UNCHANGED << graph_nodes, graph_edges >>
           ELSE /\ kg_pc' = "seed"
                /\ graph_nodes' = EmptyTable
                /\ graph_edges' = EmptyTable
  /\ UNCHANGED << kg_pair, kg_added, kg_last, kg_prev, kg_streak, loopVars, genVars,
                  connVars, schedVars, vsVars >>

\* the run of equal outcomes after one more call for edge e
Streak(e, success) ==
  IF kg_streak.edge = e /\ kg_streak.success = success
  THEN [kg_streak EXCEPT !.n = Min(@ + 1, 10)]
  ELSE [edge |-> e, success |-> success, n |-> 1]

\* kg.py:323-364
UpdateFromExperience ==
  /\ kg_pc = "ready"
  /\ \E success \in BOOLEAN, ctx \in Contexts :
       LET e == kg_pair
           had == e \in DOMAIN graph_edges
           w == IF had THEN new_weight(graph_edges[e], success)
                ELSE initial_weight(success)
           raw == IF ~had THEN w
                  ELSE IF success THEN FloatPlusTenth[graph_edges[e]]
                  ELSE FloatMinusTenth[graph_edges[e]]
       IN /\ graph_nodes' = EnsuredNodes(graph_nodes, e, ctx)
          /\ db_nodes' = Upsert(db_nodes, EnsuredRows(e, ctx))
          /\ graph_edges' = Upsert(graph_edges, e :> w)
          /\ db_edges' = IF had /\ e \notin DOMAIN db_edges
                         THEN db_edges
                         ELSE Upsert(db_edges, e :> w)
          /\ kg_prev' = kg_last
          /\ kg_last' = [op |-> "update", edge |-> e, success |-> success,
                         before |-> IF had THEN graph_edges[e] ELSE 0,
                         clamped |-> (w # raw), problem |-> "",
                         results |-> << >>]
          /\ kg_streak' = Streak(e, success)
  /\ UNCHANGED << kg_pair, kg_added, kg_pc, kg_stack, kg_faults, loopVars, genVars,
                  connVars, schedVars, vsVars >>

\* kg.py:217-238: add_edge(source, target, weight=w)
AddEdge ==
  /\ kg_pc = "ready"
  /\ \E e \in {kg_pair}, w \in Tenths :
       /\ graph_nodes' = WithEnds(graph_nodes, e)
       /\ graph_edges' = Upsert(graph_edges, e :> w)
       /\ db_edges' = Upsert(db_edges, e :> w)
       /\ kg_prev' = kg_last
       /\ kg_last' = [op |-> "add_edge", edge |-> e, success |-> FALSE,
                      before |-> IF e \in DOMAIN graph_edges
                                 THEN graph_edges[e] ELSE 0,
                      clamped |-> FALSE, problem |-> "",
                         results |-> << >>]
       /\ kg_streak' = IF kg_streak.edge = e THEN NoStreak ELSE kg_streak
  /\ UNCHANGED << db_nodes, kg_pair, kg_added, kg_pc, kg_stack, kg_faults, loopVars,
                  genVars, connVars, schedVars, vsVars >>

\* add_node calls made on one graph
MaxNodeAdds == 1

\* the keyword arguments of an add_node call; "absent" is a keyword that
\* was not passed
NodeArgs ==
  {[type |-> "absent", category |-> "absent", description |-> "absent"],
   [type |-> "solution", category |-> "absent", description |-> "power cycle"],
   [type |-> "problem", category |-> "network", description |-> "absent"]}

\* nx.DiGraph.add_node(id, **attributes): the attributes passed are set, the
\* others stay as they were
MergedNode(old, args) ==
  [type |-> IF args.type = "absent" THEN old.type ELSE args.type,
   category |-> IF args.category = "absent" THEN old.category ELSE args.category,
   description |-> IF args.description = "absent" THEN old.description
                   ELSE args.description]

\* kg.py:204-213: the row that add_node writes
NodeRow(args) ==
  [type |-> IF args.type = "absent" THEN "unknown" ELSE args.type,
   category |-> IF args.category = "absent" THEN "None" ELSE args.category,
   description |-> IF args.description = "absent" THEN "None"
                   ELSE args.description]

\* kg.py:192-215: add_node(node_id, **attributes)
AddNode ==
  /\ kg_pc = "ready"
  /\ kg_added < MaxNodeAdds
  /\ kg_added' = kg_added + 1
  /\ \E id \in {kg_pair[1], kg_pair[2]}, args \in NodeArgs :
       /\ graph_nodes' =
            Upsert(graph_nodes,
                   id :> MergedNode(IF id \in DOMAIN graph_nodes
                                    THEN graph_nodes[id] ELSE BareNode, args))
       /\ db_nodes' = Upsert(db_nodes, id :> NodeRow(args))
       /\ kg_prev' = kg_last
       /\ kg_last' = [op |-> "add_node", edge |-> <<id, "">>, success |-> FALSE,
                      before |-> 0, clamped |-> FALSE, problem |-> "",
                         results |-> << >>]
  /\ UNCHANGED << graph_edges, db_edges, kg_pair, kg_pc, kg_stack, kg_faults,
                  kg_streak, loopVars, genVars, connVars, schedVars, vsVars >>

KGNext ==
  \/ KGConstruct
  \/ KGLoad
  \/ KGSeed
  \/ UpdateFromExperience
  \/ AddEdge

KGSpec == KGInit /\ [][KGNext]_vars

\* kg.py:19-190 on an empty store on which no call raises: the catalogue is
\* in both tables and in the graph
KGStoreInit ==
  /\ LoopIdle
  /\ IdleUnless("kg")
  /\ db_nodes = SeedNodes
  /\ db_edges = SeedEdges
  /\ graph_nodes = SeedNodes
  /\ graph_edges = SeedEdges
  /\ kg_added = 0
  /\ kg_pair \in UpdatePairs
  /\ kg_pc = "ready"
  /\ kg_stack = << >>
  /\ kg_faults = 0
  /\ kg_last = NoKgCall
  /\ kg_prev = NoKgCall
  /\ kg_streak = NoStreak

\* the nodes that follow node p in the graph
Successors(edges, p) == {e[2] : e \in {d \in DOMAIN edges : d[1] = p}}

\* the orders in which graph.neighbors may list the nodes of S
Orders(S) ==
  {o \in [1..Cardinality(S) -> S] :
     \A i, j \in 1..Cardinality(S) : o[i] = o[j] => i = j}

\* list.sort(key=relevance, reverse=True): the stable sort of Python, which
\* keeps entries of equal relevance in the order they had
sorted_by_relevance(list) ==
  [r \in 1..Len(list) |->
     list[CHOOSE i \in 1..Len(list) :
            Cardinality({j \in 1..Len(list) :
                           \/ list[j].relevance > list[i].relevance
                           \/ list[j].relevance = list[i].relevance /\ j < i})
            = r - 1]]

\* kg.py:308-316: the entries appended by the loop over graph.neighbors,
\* which lists the successors in the given order; every edge of the model
\* carries a weight, so the default of edge_data.get is not met
solutions_found(nodes, edges, problem, order) ==
  LET sols == SelectSeq(order, LAMBDA t : nodes[t].type = "solution")
  IN [i \in 1..Len(sols) |->
        [id |-> sols[i], relevance |-> edges[<<problem, sols[i]>>]]]

\* find_solutions without the sort of line 319
find_solutions_unsorted(nodes, edges, problem, order) ==
  IF problem \notin DOMAIN nodes THEN << >>
  ELSE solutions_found(nodes, edges, problem, order)

\* kg.py:293-321
find_solutions(nodes, edges, problem, order) ==
  IF problem \notin DOMAIN nodes THEN << >>
  ELSE sorted_by_relevance(solutions_found(nodes, edges, problem, order))

\* edges that add_edge may have put behind service_down next to the two of
\* the catalogue: one to a service, one to an id that was never added
ExtraEdges == {<<"service_down", "nginx">>, <<"service_down", "reboot">>}

\* the ids that solutions are asked for: problems with two, one and no
\* solution, a service, and an id that is not in the graph
FindProblems == {"service_down", "high_memory", "network_latency", "nginx",
                 "no_such_problem"}

\* a constructed graph in which add_edge has set the weights of the two
\* solutions of service_down and has added some of the extra edges
FindInit ==
  /\ LoopIdle
  /\ IdleUnless("kg")
  /\ \E w1 \in Tenths, w2 \in Tenths, extra \in SUBSET ExtraEdges :
       /\ graph_edges =
            Upsert(Upsert(SeedEdges,
                          (<<"service_down", "restart_service">> :> w1)
                          @@ (<<"service_down", "check_process">> :> w2)),
                   [e \in extra |-> W_1_0])
       /\ graph_nodes =
            [k \in DOMAIN SeedNodes \cup {e[2] : e \in extra} |->
               IF k \in DOMAIN SeedNodes THEN SeedNodes[k] ELSE BareNode]
  /\ db_nodes = SeedNodes
  /\ db_edges = graph_edges
  /\ kg_added = 0
  /\ kg_pair = <<"service_down", "restart_service">>
  /\ kg_pc = "ready"
  /\ kg_stack = << >>
  /\ kg_faults = 0
  /\ kg_last = NoKgCall
  /\ kg_prev = NoKgCall
  /\ kg_streak = NoStreak

\* find_solutions(problem)
FindSolutions ==
  /\ kg_pc = "ready"
  /\ \E problem \in FindProblems :
       \E order \in Orders(Successors(graph_edges, problem)) :
         kg_last' = [NoKgCall EXCEPT
                       !.op = "find", !.problem = problem,
                       !.results = find_solutions(graph_nodes, graph_edges,
                                                  problem, order)]
  /\ kg_prev' = kg_last
  /\ UNCHANGED << graph_nodes, graph_edges, db_nodes, db_edges, kg_pair,
                  kg_added, kg_pc, kg_stack, kg_faults, kg_streak, loopVars,
                  genVars, connVars, schedVars, vsVars >>

FindNext == FindSolutions

FindSpec == FindInit /\ [][FindNext]_vars

\* the calls that change a constructed graph
KGStoreNext ==
  \/ AddNode
  \/ AddEdge
  \/ UpdateFromExperience

KGStoreSpec == KGStoreInit /\ [][KGStoreNext]_vars

(* --------------------------- the retrieval store ----------------------- *)
\* calls made on one store
MaxVsOps == 6

\* documents held at once
MaxDocs == 2

\* the largest limit passed to search
MaxLimit == 2

DocIds == {"a", "b"}

\* contents of documents, and one more text that is only asked for
Texts == {"t1", "t2"}

Queries == Texts \cup {"t3"}

\* vectorstore.py:89-132: the ids of base_docs, in order
BaseIds == << "linux_commands_1", "nginx_troubleshooting",
              "mysql_troubleshooting", "kubernetes_commands",
              "network_troubleshooting", "disk_troubleshooting",
              "performance_troubleshooting" >>

\* base_docs; the content of a base document is named by its id
BaseDocs == [i \in 1..Len(BaseIds) |-> [id |-> BaseIds[i], content |-> BaseIds[i]]]

\* SentenceTransformer.encode, as a point on a line: equal texts have equal
\* vectors, different texts different ones
\* the base documents have vectors of their own, away from the others
encode(text) ==
  IF text = "t1" THEN 1
  ELSE IF text = "t2" THEN 3
  ELSE IF \E i \in 1..Len(BaseIds) : BaseIds[i] = text
  THEN 10 * (CHOOSE i \in 1..Len(BaseIds) : BaseIds[i] = text)
  ELSE 6

\* faiss.IndexFlatL2: the squared distance of two vectors
L2(u, v) == (u - v) * (u - v)

\* the positions of vecs that come before position j in a search for q:
\* those nearer to q, and among the equally near the earlier ones
Before(vecs, q, j) ==
  {i \in 1..Len(vecs) :
     \/ L2(vecs[i], q) < L2(vecs[j], q)
     \/ L2(vecs[i], q) = L2(vecs[j], q) /\ i < j}

\* faiss index.search(q, k): the labels (0-based positions) of the k nearest
\* vectors, nearest first, and -1 where the index has fewer than k vectors
faiss_search(vecs, q, k) ==
  [r \in 1..k |->
     IF r <= Len(vecs)
     THEN (CHOOSE j \in 1..Len(vecs) : Cardinality(Before(vecs, q, j)) = r - 1) - 1
     ELSE -1]

\* documents[idx] of Python, for a label idx < len(documents): a negative
\* label counts from the end of the list
PyItem(docs, idx) == IF idx >= 0 THEN docs[idx + 1] ELSE docs[Len(docs) + 1 + idx]

\* vectorstore.py:194-227: the documents returned, with 100 * score
search(docs, vecs, query, limit) ==
  IF docs = << >> THEN << >>
  ELSE LET k == Min(limit, Len(docs))
           q == encode(query)
           labels == faiss_search(vecs, q, k)
           kept == SelectSeq([r \in 1..k |-> r], LAMBDA r : labels[r] < Len(docs))
       IN [n \in 1..Len(kept) |->
             LET r == kept[n]
                 doc == PyItem(docs, labels[r])
             IN [id |-> doc.id, content |-> doc.content,
                 score |-> IF labels[r] >= 0
                           THEN 100 - L2(vecs[labels[r] + 1], q)
                           ELSE 100]]

\* list.pop(i) and the boolean mask of vectorstore.py:253-255, 1-based
Without(seq, i) ==
  [n \in 1..(Len(seq) - 1) |-> IF n < i THEN seq[n] ELSE seq[n + 1]]

\* vectorstore.py:239-243: the position of the first document with the id,
\* or 0
FirstWithId(docs, id) ==
  IF \E i \in 1..Len(docs) : docs[i].id = id
  THEN CHOOSE i \in 1..Len(docs) :
         docs[i].id = id /\ \A j \in 1..(i - 1) : docs[j].id # id
  ELSE 0

\* no document: the None of get_document
NoDocument == [id |-> "", content |-> ""]

\* vectorstore.py:313-325
get_document(docs, id) ==
  IF FirstWithId(docs, id) = 0 THEN NoDocument ELSE docs[FirstWithId(docs, id)]

\* vectorstore.py:161-192: the three fields after add_document
added(docs, vecs, embs, doc, encode_ok) ==
  IF ~encode_ok
  THEN [documents |-> docs, index |-> vecs, document_embeddings |-> embs,
        ok |-> FALSE]
  ELSE [documents |-> Append(docs, doc),
        index |-> Append(vecs, encode(doc.content)),
        document_embeddings |-> Append(embs, encode(doc.content)),
        ok |-> TRUE]

\* vectorstore.py:229-275 before the save: the three fields after
\* delete_document found the id at position i
deleted(docs, vecs, embs, i) ==
  IF Len(docs) = 1
  THEN [documents |-> << >>, index |-> << >>, document_embeddings |-> embs,
        ok |-> TRUE]
  ELSE IF i > Len(embs)
  THEN [documents |-> Without(docs, i), index |-> vecs,
        document_embeddings |-> embs, ok |-> FALSE]
  ELSE [documents |-> Without(docs, i), index |-> Without(embs, i),
        document_embeddings |-> Without(embs, i), ok |-> TRUE]

VSInit ==
  /\ LoopIdle
  /\ IdleUnless("vs")
  /\ VSIdle

\* add_document(document)
AddDocument ==
  /\ vs_ops < MaxVsOps
  /\ Len(documents) < MaxDocs
  /\ \E id \in DocIds, text \in Texts, encode_ok \in BOOLEAN :
       LET r == added(documents, index, document_embeddings,
                      [id |-> id, content |-> text], encode_ok)
       IN /\ documents' = r.documents
          /\ index' = r.index
          /\ document_embeddings' = r.document_embeddings
          /\ vs_last' = [NoVsCall EXCEPT !.op = "add", !.id = id,
                           !.content = text, !.n = Len(documents),
                           !.returned = r.ok]
  /\ vs_ops' = vs_ops + 1
  /\ UNCHANGED << disk_documents, disk_index, loopVars, genVars, connVars,
                  schedVars, kgVars >>

\* delete_document(doc_id), with the save() at 267; save_ok says whether the
\* two files could be written
DeleteDocument ==
  /\ vs_ops < MaxVsOps
  /\ \E id \in DocIds, save_ok \in BOOLEAN :
       LET i == FirstWithId(documents, id)
           r == deleted(documents, index, document_embeddings, i)
       IN IF i = 0
          THEN /\ vs_last' = [NoVsCall EXCEPT !.op = "delete", !.id = id,
                                !.n = Len(documents)]
               /\ UNCHANGED << documents, index, document_embeddings,
                               disk_documents, disk_index >>
          ELSE /\ documents' = r.documents
               /\ index' = r.index
               /\ document_embeddings' = r.document_embeddings
               /\ IF r.ok /\ save_ok
                  THEN disk_documents' = r.documents /\ disk_index' = r.index
                  ELSE UNCHANGED << disk_documents, disk_index >>
               /\ vs_last' = [NoVsCall EXCEPT !.op = "delete", !.id = id,
                                !.n = Len(documents), !.returned = r.ok]
  /\ vs_ops' = vs_ops + 1
  /\ UNCHANGED << loopVars, genVars, connVars, schedVars, kgVars >>

\* search(query, limit)
Search ==
  /\ vs_ops < MaxVsOps
  /\ \E query \in Queries, limit \in 1..MaxLimit :
       vs_last' = [NoVsCall EXCEPT !.op = "search", !.content = query,
                     !.limit = limit, !.n = Len(documents), !.returned = TRUE,
                     !.results = search(documents, index, query, limit)]
  /\ vs_ops' = vs_ops + 1
  /\ UNCHANGED << documents, index, document_embeddings, disk_documents,
                  disk_index, loopVars, genVars, connVars, schedVars, kgVars >>

\* vectorstore.py:277-311: the three fields after update_document found the
\* id at position i: delete_document, then add_document of the copy with the
\* new content; neither return value is read
updated(docs, vecs, embs, i, new_content, encode_ok) ==
  LET d == deleted(docs, vecs, embs, i)
  IN added(d.documents, d.index, d.document_embeddings,
           [id |-> docs[i].id, content |-> new_content], encode_ok)

\* update_document(doc_id, new_content), with the save() inside
\* delete_document
UpdateDocument ==
  /\ vs_ops < MaxVsOps
  /\ \E id \in DocIds, text \in Texts, encode_ok \in BOOLEAN, save_ok \in BOOLEAN :
       LET i == FirstWithId(documents, id)
           d == deleted(documents, index, document_embeddings, i)
           r == updated(documents, index, document_embeddings, i, text, encode_ok)
       IN IF i = 0
          THEN /\ vs_last' = [NoVsCall EXCEPT !.op = "update", !.id = id,
                                !.content = text, !.n = Len(documents)]
               /\ UNCHANGED << documents, index, document_embeddings,
                               disk_documents, disk_index >>
          ELSE /\ documents' = r.documents
               /\ index' = r.index
               /\ document_embeddings' = r.document_embeddings
               /\ IF d.ok /\ save_ok
                  THEN disk_documents' = d.documents /\ disk_index' = d.index
                  ELSE UNCHANGED << disk_documents, disk_index >>
               /\ vs_last' = [NoVsCall EXCEPT !.op = "update", !.id = id,
                                !.content = text, !.n = Len(documents),
                                !.returned = TRUE, !.added = r.ok]
  /\ vs_ops' = vs_ops + 1
  /\ UNCHANGED << loopVars, genVars, connVars, schedVars, kgVars >>

\* clear(), with its save(); the answer of save() is not read
Clear ==
  /\ vs_ops < MaxVsOps
  /\ \E save_ok \in BOOLEAN :
       /\ documents' = << >>
       /\ index' = << >>
       /\ document_embeddings' = << >>
       /\ IF save_ok
          THEN disk_documents' = << >> /\ disk_index' = << >>
          ELSE UNCHANGED << disk_documents, disk_index >>
  /\ vs_last' = [NoVsCall EXCEPT !.op = "clear", !.n = Len(documents),
                   !.returned = TRUE]
  /\ vs_ops' = vs_ops + 1
  /\ UNCHANGED << loopVars, genVars, connVars, schedVars, kgVars >>

\* save()
Save ==
  /\ vs_ops < MaxVsOps
  /\ \E save_ok \in BOOLEAN :
       /\ IF save_ok
          THEN disk_documents' = documents /\ disk_index' = index
          ELSE UNCHANGED << disk_documents, disk_index >>
       /\ vs_last' = [NoVsCall EXCEPT !.op = "save", !.n = Len(documents),
                        !.returned = save_ok]
  /\ vs_ops' = vs_ops + 1
  /\ UNCHANGED << documents, index, document_embeddings, loopVars, genVars,
                  connVars, schedVars, kgVars >>

\* np.zeros((n, dimension)): n rows of the zero vector
zeros(n) == [i \in 1..n |-> 0]

\* vectorstore.py:48-71 on a store whose model is loaded: the two files are
\* read, or, when reading raises, _create_empty_index adds the base documents
\* and saves
Reload ==
  /\ vs_ops < MaxVsOps
  /\ \E load_ok \in BOOLEAN, save_ok \in BOOLEAN :
       /\ IF load_ok
          THEN /\ documents' = disk_documents
               /\ index' = disk_index
               /\ document_embeddings' = zeros(Len(disk_documents))
               /\ UNCHANGED << disk_documents, disk_index >>
          ELSE /\ documents' = BaseDocs
               /\ index' = [i \in 1..Len(BaseDocs) |-> encode(BaseDocs[i].content)]
               /\ document_embeddings' = index'
               /\ IF save_ok
                  THEN disk_documents' = documents' /\ disk_index' = index'
                  ELSE UNCHANGED << disk_documents, disk_index >>
       /\ vs_last' = [NoVsCall EXCEPT !.op = "reload", !.n = Len(documents),
                        !.returned = TRUE, !.before = documents,
                        !.loaded = load_ok]
  /\ vs_ops' = vs_ops + 1
  /\ UNCHANGED << loopVars, genVars, connVars, schedVars, kgVars >>

VSNext ==
  \/ AddDocument
  \/ DeleteDocument
  \/ Search
  \/ UpdateDocument
  \/ Clear
  \/ Save
  \/ Reload

VSSpec == VSInit /\ [][VSNext]_vars

(* ------------------------ the plan parser alone ------------------------ *)
PlanInit ==
  /\ LoopInit
  /\ conn_type = SshEverywhere
  /\ content \in Contents
  /\ plan = NoPlan
  /\ OtherInit

\* rag.py:145-163 applied to the completion text
ParseResponse ==
  /\ plan = NoPlan
  /\ plan' = parse_fix_plan(content)
  /\ UNCHANGED << content, failure_counters, job_due, pc, cur, healthy,
                  fix_plan, cmd_idx, fixed, conn_open, leaked, executed,
                  reprobed, kg_updates, probed, notified, tick_no, allbad,
                  running, tickVars, otherVars >>

\* the next call of generate_fix_plan gets another completion text
NextResponse ==
  /\ plan # NoPlan
  /\ content' \in Contents
  /\ plan' = NoPlan
  /\ UNCHANGED << failure_counters, job_due, pc, cur, healthy,
                  fix_plan, cmd_idx, fixed, conn_open, leaked, executed,
                  reprobed, kg_updates, probed, notified, tick_no, allbad,
                  running, tickVars, otherVars >>

PlanNext ==
  \/ ParseResponse
  \/ NextResponse

PlanSpec == PlanInit /\ [][PlanNext]_vars

TypeOK ==
  /\ pc \in {"idle", "check", "plan", "connect", "execute", "reprobe",
             "notify", "next"}
  /\ DOMAIN failure_counters \subseteq ServerIds
  /\ leaked \in Nat

(* ------------------------------ properties ----------------------------- *)
ConfiguredIds == [i \in 1..Len(servers) |-> servers[i].id]

CounterOf(fc, id) == IF id \in DOMAIN fc THEN fc[id] ELSE 0

PlanKeys == {"diagnosis", "commands", "explanation"}

\* C1: an endpoint that was unhealthy with a failed remediation on every tick
\* so far has a failure count equal to the number of ticks, was not notified
\* about on ticks 1 to 4, and was notified about exactly once on each tick
\* from the 5th on.
EscalationFromFifthTick ==
  \A id \in ServerIds :
    (pc = "idle" /\ tick_no >= 1 /\ allbad[id]) =>
      /\ Counter(id) = tick_no
      /\ notified[id] = IF tick_no >= EscalationThreshold THEN 1 ELSE 0

EscalationFromFifthTickWitness ==
  /\ pc = "idle"
  /\ tick_no = EscalationThreshold + 1
  /\ allbad["web1"]
  /\ notified["web1"] = 1
  /\ Counter("web1") = EscalationThreshold + 1

\* C2: when the initial probe of an endpoint is healthy, its failure count is
\* exactly 0 once the probe has been handled, whatever happened on the ticks
\* before; and no failure count is ever negative.
CounterResetOnHealthy ==
  /\ \A id \in ServerIds : Counter(id) >= 0
  /\ (pc = "next" /\ healthy) =>
       (CurId \in DOMAIN failure_counters /\ failure_counters[CurId] = 0)

\* a healthy probe after two or more ticks that were all unhealthy
CounterResetOnHealthyWitness ==
  /\ pc = "next"
  /\ healthy
  /\ tick_no >= 2
  /\ allbad[CurId]
  /\ Counter(CurId) = 0

\* C3: when the initial probe is unhealthy and the re-probe after the fix is
\* healthy, the failure count of the endpoint is 0 at the end of its handling.
FixedResetsCounter ==
  (pc = "next" /\ ~healthy /\ fixed) => Counter(CurId) = 0

\* C4: every remediation attempt that reached its re-probe has recorded its
\* outcome in the knowledge graph exactly once when the handling ends.
OutcomeRecorded ==
  (pc = "next" /\ reprobed) => kg_updates = 1

\* C5: whatever the completion text, the value generate_fix_plan returns is
\* an object with a diagnosis, a commands list and an explanation.
PlanAlwaysUsable ==
  (plan # NoPlan) => (plan.type = "dict" /\ PlanKeys \subseteq plan.keys)

\* C6: a completion text without braces that is not valid JSON yields the
\* default plan: no exception, one placeholder command and a diagnosis that
\* says the response could not be parsed.
DegradedPlanOnGarbage ==
  ( /\ plan # NoPlan
    /\ ~Contains(content, "{")
    /\ ~Contains(content, "}")
    /\ json_loads(content) = ParseError )
  => /\ plan.type = "dict"
     /\ PlanKeys \subseteq plan.keys
     /\ Len(plan.commands) = 1
     /\ plan.commands[1] = "echo 'cannot generate fix command'"
     /\ plan.diagnosis = "cannot parse LLM response"

DegradedPlanOnGarbageWitness ==
  /\ content = <<"t", "n">>
  /\ plan = DefaultPlan

\* C7: once the fix connector is connected and the plan has commands, every
\* command of the plan has been executed, in plan order, and the re-probe
\* has run when the handling of the endpoint ends.
AllCommandsExecuted ==
  (pc = "next" /\ cmd_idx >= 1 /\ HasCommands(fix_plan)) =>
    (executed = fix_plan.commands /\ reprobed)

\* C8: a tick probes the configured endpoints once each in configuration
\* order and returns only after the last one, whatever failed on the way; and
\* a step changes no failure count other than that of the endpoint it probes.
EveryEndpointHandled ==
  [][ /\ probed' = SubSeq(ConfiguredIds, 1, Len(probed'))
      /\ (pc = "next" /\ pc' = "idle") => probed = ConfiguredIds
      /\ (pc' = "next") => Len(probed') = cur'
      /\ \A id \in ServerIds :
           CounterOf(failure_counters', id) # CounterOf(failure_counters, id)
             => (pc = "check" /\ id = CurId) ]_vars

\* the first endpoint failed with a connector left open and a failed
\* remediation, and the second one was probed in the same tick
EveryEndpointHandledWitness ==
  /\ pc = "next"
  /\ cur = 2
  /\ tick_no = 0
  /\ Counter("web1") = 1
  /\ leaked >= 1
  /\ probed = ConfiguredIds
  /\ healthy
  /\ Counter("db1") = 0

\* C9: no step ends with a connector still connected: outside the command
\* loop of _try_fix_server no connector is connected.
NoConnectorLeftOpen ==
  /\ leaked = 0
  /\ (pc # "execute") => ~conn_open

TickWithinOnePeriod ==
  period_elapsed => sched_probed = ServerIds

\* the transports whose connector keeps a session
SessionTypes == {"ssh", "telnet", "rj45"}

\* C12: on an ssh, telnet or rj45 connector that is new or whose last
\* disconnect() returned, execute() fails with the not-connected error and
\* does no I/O; the local shell connector runs the command in any state; on
\* every connector, disconnect() in those two states (so also a second
\* disconnect() in a row) returns without I/O and changes nothing.
ExecuteNeedsSession ==
  /\ (/\ last_call.op = "execute"
      /\ last_call.before \in {"fresh", "disconnected"}
      /\ conn_kind \in SessionTypes) =>
       (last_call.result = "NotConnected" /\ ~last_call.io)
  /\ (last_call.op = "execute" /\ conn_kind = "shell") =>
       (last_call.result # "NotConnected" /\ last_call.io)
  /\ (/\ last_call.op = "disconnect"
      /\ last_call.before \in {"fresh", "disconnected"}) =>
       (/\ last_call.result = "ok"
        /\ ~last_call.io
        /\ handle = last_call.handle_before)

ExecuteNeedsSessionWitness ==
  /\ conn_kind = "telnet"
  /\ last_call.op = "execute"
  /\ last_call.before = "disconnected"
  /\ last_call.result = "NotConnected"
  /\ conn_ops = 3

\* C12 as stated: the same for every transport variant.
ExecuteNeedsConnectionAnyVariant ==
  (last_call.op = "execute" /\ last_call.before \in {"fresh", "disconnected"}) =>
    (last_call.result = "NotConnected" /\ ~last_call.io)

\* C13: while the tick handles an endpoint whose connection_type, put in
\* lower case, is none of ssh, telnet, shell, rj45 and cisco_serial, no
\* connector is built: connect() and execute() are never called, nothing is
\* connected, the probe is unhealthy and the remediation is not a success.
UnsupportedTypeNeverConnects ==
  (cur # 0 /\ conn_type_of(conn_type[CurId]) \notin KnownTypes) =>
    /\ ~did_connect
    /\ ~did_execute
    /\ ~conn_open
    /\ executed = <<>>
    /\ pc \notin {"execute", "reprobe"}
    /\ (pc \in {"plan", "connect", "notify", "next"} => ~healthy /\ ~fixed)

UnsupportedTypeNeverConnectsWitness ==
  /\ cur # 0
  /\ conn_type[CurId] = "snmp"
  /\ pc = "notify"
  /\ fix_plan # NoPlan

\* C13 as stated: the same for every connection_type that is present and is
\* not literally one of the five names.
UnlistedTypeNeverConnects ==
  (cur # 0 /\ conn_type[CurId] \notin KnownTypes \cup {"absent"}) =>
    ~did_connect /\ ~did_execute

\* C14: every edge weight of the graph and of the store lies between 0.1 and
\* 1.0 after any sequence of recorded outcomes, and after ten outcomes in a
\* row of the same kind on one edge its weight is exactly 1.0 (successes) or
\* exactly 0.1 (failures).
WeightStaysInRange ==
  /\ \A e \in DOMAIN graph_edges :
       W_0_1 <= graph_edges[e] /\ graph_edges[e] <= W_1_0
  /\ \A e \in DOMAIN db_edges :
       W_0_1 <= db_edges[e] /\ db_edges[e] <= W_1_0
  /\ kg_streak.n = 10 =>
       graph_edges[kg_streak.edge] = IF kg_streak.success THEN W_1_0 ELSE W_0_1

WeightStaysInRangeWitness ==
  /\ kg_streak.n = 10
  /\ ~kg_streak.success
  /\ kg_streak.edge = <<"service_down", "restart_service">>
  /\ graph_edges[kg_streak.edge] = W_0_1
  /\ kg_last.before # W_0_1
  /\ kg_last.clamped

\* C15: when a success and then a failure are recorded on an existing edge
\* and neither update is clamped, the weight is again what it was before the
\* two calls.
SuccessThenFailureRestores ==
  (/\ kg_last.op = "update" /\ kg_prev.op = "update"
   /\ kg_last.edge = kg_prev.edge
   /\ kg_prev.success /\ ~kg_last.success
   /\ kg_prev.before # 0
   /\ ~kg_prev.clamped /\ ~kg_last.clamped) =>
    graph_edges[kg_last.edge] = kg_prev.before

\* C16: while a KnowledgeGraph is being constructed over a store that holds
\* nodes and edges, no row of the store changes.
SeedingKeepsPopulatedStore ==
  [][(kg_stack # << >> /\ DOMAIN db_nodes # {} /\ DOMAIN db_edges # {}) =>
       (db_nodes' = db_nodes /\ db_edges' = db_edges)]_vars

\* C17: a generate operation whose template is absent raises to its caller,
\* has not invoked the completion service and returns no plan.
TemplateAbsentRaises ==
  (gen_pc = "returned" /\ ~gen_call.found) =>
    /\ gen_result.raised
    /\ gen_result.llm_calls = 0
    /\ gen_result.value = NoPlan

TemplateAbsentRaisesWitness ==
  /\ gen_pc = "returned"
  /\ gen_call.op = "task_plan"
  /\ ~gen_call.found
  /\ gen_call.llm_ok
  /\ gen_result.raised

\* C18: a remediation attempt invokes the completion service at most once;
\* when that invocation fails there is no plan and no second invocation, the
\* attempt counts as failed, and the escalation check has run by the time the
\* endpoint is done.
LlmFailureFailsAttempt ==
  /\ llm_calls <= 1
  /\ llm_failed =>
       /\ llm_calls = 1
       /\ fix_plan = NoPlan
       /\ ~fixed
       /\ pc \in {"notify", "next"}
       /\ pc = "next" =>
            notified[CurId] =
              IF Counter(CurId) >= EscalationThreshold THEN 1 ELSE 0

LlmFailureFailsAttemptWitness ==
  /\ llm_failed
  /\ pc = "next"
  /\ notified[CurId] = 1

\* C19: the escalation step posts to the webhook at most once, leaves the
\* failure counters as they are and hands over to the rest of the tick,
\* whatever the webhook answers.
WebhookPostedAtMostOnce ==
  [][pc = "notify" =>
       /\ failure_counters' = failure_counters
       /\ pc' \in {"notify", "next"}
       /\ webhook'.posts <= 1]_vars

WebhookPostedAtMostOnceWitness ==
  /\ pc = "next"
  /\ cur = 1
  /\ webhook.posts = 1
  /\ webhook.result = "exception"
  /\ Counter(CurId) = EscalationThreshold


\* C20: a search on a store without documents returns the empty list; on a
\* store with n documents it returns exactly min(limit, n) documents, in
\* order of falling score, each of them a document that is in the store.
SearchReturnsNearestDocuments ==
  (vs_last.op = "search") =>
    /\ Len(vs_last.results) = Min(vs_last.limit, Len(documents))
    /\ \A r \in 1..(Len(vs_last.results) - 1) :
         vs_last.results[r].score >= vs_last.results[r + 1].score
    /\ \A r \in 1..Len(vs_last.results) :
         \E i \in 1..Len(documents) :
           /\ documents[i].id = vs_last.results[r].id
           /\ documents[i].content = vs_last.results[r].content

\* the embeddings of the documents of a list, in order
EmbeddingsOf(docs) == [i \in 1..Len(docs) |-> encode(docs[i].content)]

\* the ids carried by the documents of a list
IdsOf(docs) == {docs[i].id : i \in 1..Len(docs)}

\* C21: after delete_document(id) has returned true, get_document(id) finds
\* nothing and the index holds exactly the embeddings of the documents that
\* remain, in order; a search returns no id that is not stored.
DeleteRemovesDocument ==
  /\ (vs_last.op = "delete" /\ vs_last.returned) =>
       /\ get_document(documents, vs_last.id) = NoDocument
       /\ index = EmbeddingsOf(documents)
  /\ (vs_last.op = "search") =>
       \A r \in 1..Len(vs_last.results) :
         vs_last.results[r].id \in IdsOf(documents)

\* C22: when update_document(id, new_content) has returned true, exactly
\* one document carries the id, its content is new_content, the number of
\* documents is what it was before, and a search for new_content returns
\* that document first.
UpdateReplacesDocument ==
  (vs_last.op = "update" /\ vs_last.returned) =>
    /\ Cardinality({i \in 1..Len(documents) : documents[i].id = vs_last.id}) = 1
    /\ get_document(documents, vs_last.id).content = vs_last.content
    /\ Len(documents) = vs_last.n
    /\ LET found == search(documents, index, vs_last.content, 1)
       IN Len(found) = 1 /\ found[1].id = vs_last.id

\* C23: after _load_or_create_index has read the persisted files, every
\* document that was in the store before is still there with its content,
\* and a search for its content returns a document with that content first.
ReloadKeepsDocuments ==
  (vs_last.op = "reload" /\ vs_last.loaded) =>
    \A i \in 1..Len(vs_last.before) :
      LET doc == vs_last.before[i]
          found == search(documents, index, doc.content, 1)
      IN /\ get_document(documents, doc.id) # NoDocument
         /\ \E j \in 1..Len(documents) : documents[j] = doc
         /\ Len(found) = 1
         /\ found[1].content = doc.content

\* C24: no two stored documents carry the same id.
DocumentIdsUnique ==
  \A i, j \in 1..Len(documents) :
    documents[i].id = documents[j].id => i = j

\* C27: the index, document_embeddings and documents have the same length,
\* and the i-th index vector is the embedding of the i-th document.
IndexAlignedWithDocuments ==
  /\ Len(index) = Len(documents)
  /\ Len(document_embeddings) = Len(documents)
  /\ index = EmbeddingsOf(documents)

\* C30: while a KnowledgeGraph is constructed, _load_graph is entered at most
\* twice: once by the constructor and once more by the one seeding; the
\* calls between _load_graph and _create_base_knowledge nest no deeper.
ConstructionSeedsAtMostOnce == Len(kg_stack) <= 2

\* C28: on a constructed graph, the graph that _load_graph would build from
\* kg_nodes and kg_edges has the nodes, node attributes, edges and weights
\* of the graph in memory, and both ends of every edge have a row in
\* kg_nodes.
GraphMatchesStore ==
  kg_pc = "ready" =>
    /\ graph_nodes = LoadedNodes
    /\ graph_edges = db_edges
    /\ \A e \in DOMAIN graph_edges :
         e[1] \in DOMAIN db_nodes /\ e[2] \in DOMAIN db_nodes

\* the solutions behind a problem: its successors of type solution
SolutionsOf(p) ==
  {t \in Successors(graph_edges, p) : graph_nodes[t].type = "solution"}

\* C25: find_solutions(problem) returns each successor of the problem whose
\* type is solution exactly once and nothing else, each with the weight of
\* its edge as relevance, in order of falling relevance; for a problem that
\* is not in the graph it returns the empty list.
FindSolutionsRanked ==
  (kg_last.op = "find") =>
    LET found == kg_last.results
        p == kg_last.problem
    IN /\ (p \notin DOMAIN graph_nodes) => found = << >>
       /\ {found[i].id : i \in 1..Len(found)} = SolutionsOf(p)
       /\ Len(found) = Cardinality(SolutionsOf(p))
       /\ \A i \in 1..Len(found) :
            found[i].relevance = graph_edges[<<p, found[i].id>>]
       /\ \A i \in 1..(Len(found) - 1) :
            found[i].relevance >= found[i + 1].relevance

\* a problem with a service and a bare node among its successors, whose
\* second solution of the catalogue is returned first
FindSolutionsRankedWitness ==
  /\ kg_last.op = "find"
  /\ kg_last.problem = "service_down"
  /\ ExtraEdges \subseteq DOMAIN graph_edges
  /\ Len(kg_last.results) = 2
  /\ kg_last.results[1].id = "check_process"
  /\ kg_last.results[1].relevance > kg_last.results[2].relevance

\* C26: the steps of one remediation attempt follow one another: the step
\* that ends the unhealthy probe and hands over to plan generation leaves no
\* connector connected; commands have been executed only when a plan has
\* been returned and the attempt is past plan generation; and the re-probe
\* starts only when every command of the plan has been executed and the
\* connector of the execution is disconnected.
AttemptStepsSequential ==
  [][/\ (pc = "check" /\ pc' = "plan") => leaked' = leaked
     /\ (executed' # << >>) =>
          /\ fix_plan' # NoPlan
          /\ pc' \in {"execute", "reprobe", "notify", "next"}
     /\ (pc' = "reprobe") =>
          /\ ~conn_open'
          /\ HasCommands(fix_plan')
          /\ executed' = fix_plan'.commands]_vars

\* C29: after a connect() of an ssh or telnet connector that raised, the
\* connector holds no session; an execute() that follows fails with the
\* not-connected error and does no I/O, and a disconnect() that follows
\* returns and leaves no session.
FailedConnectLeavesNotConnected ==
  conn_kind \in {"ssh", "telnet"} =>
    /\ (last_call.op = "connect" /\ last_call.result = "raised") =>
         handle = "none"
    /\ (last_call.op = "execute" /\ last_call.before = "connect_failed") =>
         (last_call.result = "NotConnected" /\ ~last_call.io)
    /\ (/\ last_call.op = "disconnect"
        /\ last_call.before = "connect_failed"
        /\ last_call.result = "ok") =>
         handle = "none"

====
